---- MODULE Spec2Model ----
(***************************************************************************)
(* Document ingestion pipeline and access-controlled retrieval of the      *)
(* backend: DocumentService (services/document_service.py) over the        *)
(* Pinecone adapter (core/vector_db/pinecone_client.py).                   *)
(*                                                                         *)
(* The service runs on one asyncio event loop: the code between two awaits *)
(* that really suspend is one atomic step.  Each handler is therefore cut  *)
(* at its suspension points (document processor, embedder, vector index)   *)
(* and every piece is one action.                                          *)
(***************************************************************************)
EXTENDS Integers, Sequences, FiniteSets, TLC

(* ------------------------------ bounds --------------------------------- *)
MaxCalls == 3
MaxChunks == 2
MaxMatches == 3
MaxScore == 2
MaxListed == 2
MaxClasses == 2

(* ----------------------------- constants ------------------------------- *)
None == "None"
Users == {"u1", "u2"}
DocIds == 1..MaxCalls
RunIds == 1..MaxCalls
DelIds == 1..MaxCalls

\* DocumentStatus (models/document.py)
UPLOADED == "uploaded"
PROCESSING == "processing"
PROCESSED == "processed"
EMBEDDED == "embedded"
ERROR == "error"
DocumentStatus == {UPLOADED, PROCESSING, PROCESSED, EMBEDDED, ERROR}

\* AccessLevel (models/document.py)
PRIVATE == "private"
HIERARCHY == "hierarchy"
PUBLIC == "public"
AccessLevel == {PRIVATE, HIERARCHY, PUBLIC}

\* Optional[List[float]] of a chunk: absent, the empty list, a non-empty list
NoEmb == "none"
EmptyVec == "[]"
Vec == "vec"

\* Python truthiness of an Optional[str]: None and "" are falsy
Truthy(x) == x \notin {None, ""}

\* messages of the exceptions the stages raise
MsgNotFound == "Document not found"
MsgNoEmbedder == "Embedder not configured"
MsgNoChunks == "No chunks to embed"
MsgNoVectorDb == "Vector database not configured"
MsgNoEmbedded == "No embedded chunks to store"
MsgStoreFalse == "Failed to store vectors"
MsgUpsert == "Failed to upsert vectors to Pinecone"
MsgExtract == "extraction failed"
MsgEmbed == "embedder failed"

VARIABLES
    documents,   \* keys of DocumentService.documents
    objs,        \* the Document object of each id ever created (NoDoc before)
    embedder,    \* DocumentService.embedder is set
    vector_db,   \* DocumentService.vector_db is set
    index,       \* vectors stored in the Pinecone index
    runs,        \* process_and_embed_document coroutines
    dels,        \* delete_document coroutines
    deleted,     \* ids for which delete_document returned True
    calls,       \* calls of the service made so far
    last,        \* the call that ended most recently and what it returned or raised
    search,      \* one search_documents call on an index ranked for its query
    pinecone,    \* the Pinecone account and the PineconeClient's connection to it
    upsert,      \* the latest direct call of PineconeClient.upsert_vectors
    inits,       \* initialize coroutines of the PineconeClients that share the account
    listing,     \* one list_documents call on a store and an index after a restart
    userdb,      \* the identity provider's users and the user database
    tasks        \* class-management coroutines that update a teacher's hierarchy

vars == <<documents, objs, embedder, vector_db, index, runs, dels, deleted, calls, last,
          search, pinecone, upsert, inits, listing, userdb, tasks>>

\* Optional[Document] None: no Document object
NoDoc == [status |-> "absent"]

IdleRun == [pc |-> "idle", doc |-> 0, batch |-> {}]
IdleDel == [pc |-> "idle", doc |-> 0, ids |-> {}]
NoCall == [op |-> "none", doc |-> 0, result |-> None]
NoUpsert == [chunks |-> <<>>, sent |-> FALSE, written |-> {}]
ClientIds == 1..MaxCalls
IdleInit == [pc |-> "idle", connected |-> FALSE]
\* the people of the identity provider; u1 is the administrator it starts with
PeopleInOrder == <<"u1", "u2", "u3">>
People == {PeopleInOrder[i] : i \in DOMAIN PeopleInOrder}
NoUser == [role |-> "absent"]
NoHierarchy == [path |-> None]
\* db.class_assignments: the classes by class_id; no class under an id
ClassIds == 1..MaxClasses
NoClass == [teacher_id |-> None]
TaskIds == 1..MaxCalls
IdleTask == [pc |-> "idle"]
NoUsers == [keycloak |-> {"u1"},
            class_assignments |-> [c \in ClassIds |-> NoClass],
            token_role |-> [u \in People |-> IF u = "u1" THEN "admin" ELSE None],
            users |-> [u \in People |-> NoUser],
            user_hierarchies |-> [u \in People |-> NoHierarchy]]
NoListing == [memory |-> <<>>, matches |-> <<>>, called |-> FALSE, user_id |-> None,
              outcome |-> "none", result |-> <<>>]

\* a PineconeClient just built (self.index = None) on an account that has the
\* index or not
NewPinecone(exists) ==
    [exists |-> exists, connected |-> FALSE, create_requests |-> 0, creates |-> 0]
Returned(op, d, result) == [op |-> op, doc |-> d, result |-> result]
NoSearch == [ranked |-> <<>>, called |-> FALSE, top_k |-> 0, threshold |-> 0,
             user_id |-> None, requested |-> 0, raised |-> "none", error |-> None,
             results |-> <<>>]

\* DocumentService.__init__
Init ==
    /\ documents = {}
    /\ objs = [d \in DocIds |-> NoDoc]
    /\ embedder = FALSE
    /\ vector_db = FALSE
    /\ index = {}
    /\ runs = [t \in RunIds |-> IdleRun]
    /\ dels = [k \in DelIds |-> IdleDel]
    /\ deleted = {}
    /\ calls = 0
    /\ last = NoCall
    /\ search = NoSearch
    /\ pinecone = NewPinecone(TRUE)
    /\ upsert = NoUpsert
    /\ inits = [c \in ClientIds |-> IdleInit]
    /\ listing = NoListing
    /\ userdb = NoUsers
    /\ tasks = [k \in TaskIds |-> IdleTask]

set_embedder ==
    /\ ~embedder
    /\ embedder' = TRUE
    /\ UNCHANGED <<documents, objs, vector_db, index, runs, dels, deleted, calls, last,
                   search,
                   pinecone, upsert, inits, listing, userdb, tasks>>

set_vector_db ==
    /\ ~vector_db
    /\ vector_db' = TRUE
    /\ UNCHANGED <<documents, objs, embedder, index, runs, dels, deleted, calls, last,
                   search,
                   pinecone, upsert, inits, listing, userdb, tasks>>

\* mutant of NewDocument: the owner is kept for PUBLIC documents too
NewDocument_KeepsOwner(user_id, access_level) ==
    [status |-> UPLOADED,
     user_id |-> user_id,
     access_level |-> access_level,
     accessible_to |-> {},
     organization_id |-> None,
     chunks |-> <<>>,
     gen |-> 0,
     error_message |-> None]

\* the Document built by create_document
NewDocument(user_id, access_level) ==
    [status |-> UPLOADED,
     user_id |-> IF access_level = PUBLIC THEN None ELSE user_id,
     access_level |-> access_level,
     accessible_to |-> {},
     organization_id |-> None,
     chunks |-> <<>>,
     gen |-> 0,
     error_message |-> None]

\* uuid4: an id no document was ever given
FreshIds == {d \in DocIds : objs[d] = NoDoc}

create_document(id, user_id, access_level) ==
    /\ id \in FreshIds
    /\ objs' = [objs EXCEPT ![id] = NewDocument(user_id, access_level)]
    /\ documents' = documents \cup {id}
    /\ calls' = calls + 1
    /\ last' = Returned("create_document", id, "created")
    /\ UNCHANGED <<embedder, vector_db, index, runs, dels, deleted, search,
                   pinecone, upsert, inits, listing, userdb, tasks>>

(* ------------------------- the ingestion pipeline ---------------------- *)

\* mutant of Fail: the handler sets the status and drops the message
Fail_DropsMessage(o, ks, d, msg) ==
    [objs |-> IF d \in ks THEN [o EXCEPT ![d].status = ERROR] ELSE o,
     pc |-> "failed", err |-> msg, batch |-> {}]

\* except Exception as e: record the failure on the stored document, re-raise
Fail(o, ks, d, msg) ==
    [objs |-> IF d \in ks
                THEN [o EXCEPT ![d].status = ERROR, ![d].error_message = msg]
                ELSE o,
     pc |-> "failed", err |-> msg, batch |-> {}]

\* LangChainDocumentProcessor.process_document: the chunks of one extraction,
\* each carrying a copy of the document's owner id and no embedding yet
NewChunks(o, d, n) ==
    [i \in 1..n |-> [id |-> <<d, o[d].gen + 1, i>>,
                     embedding |-> NoEmb,
                     user_id |-> o[d].user_id]]

\* mutant of embed_document_call: the check for an empty chunk list is missing
embed_document_call_NoEmptyCheck(o, ks, d) ==
    IF d \notin ks THEN Fail(o, ks, d, MsgNotFound)
    ELSE IF ~embedder THEN Fail(o, ks, d, MsgNoEmbedder)
    ELSE [objs |-> o, pc |-> "embedding", err |-> None, batch |-> {}]

\* embed_document up to its await on the embedder
embed_document_call(o, ks, d) ==
    IF d \notin ks THEN Fail(o, ks, d, MsgNotFound)
    ELSE IF ~embedder THEN Fail(o, ks, d, MsgNoEmbedder)
    ELSE IF o[d].chunks = <<>> THEN Fail(o, ks, d, MsgNoChunks)
    ELSE [objs |-> o, pc |-> "embedding", err |-> None, batch |-> {}]

\* the chunks of a document that carry a (truthy) embedding
EmbeddedChunks(doc) ==
    {doc.chunks[i] : i \in {j \in DOMAIN doc.chunks : doc.chunks[j].embedding = Vec}}

\* mutant of store_vectors_call: the check for embedded chunks is missing
store_vectors_call_NoEmbeddedCheck(o, ks, d) ==
    IF d \notin ks THEN Fail(o, ks, d, MsgNotFound)
    ELSE IF ~vector_db THEN Fail(o, ks, d, MsgNoVectorDb)
    ELSE [objs |-> o, pc |-> "storing", err |-> None, batch |-> EmbeddedChunks(o[d])]

\* store_vectors up to its await on the vector index
store_vectors_call(o, ks, d) ==
    IF d \notin ks THEN Fail(o, ks, d, MsgNotFound)
    ELSE IF ~vector_db THEN Fail(o, ks, d, MsgNoVectorDb)
    ELSE IF EmbeddedChunks(o[d]) = {} THEN Fail(o, ks, d, MsgNoEmbedded)
    ELSE [objs |-> o, pc |-> "storing", err |-> None, batch |-> EmbeddedChunks(o[d])]

\* mutant of VectorData: a chunk without owner is stored with an owner tag
VectorData_OwnerTag(c) ==
    [id |-> c.id, user_id |-> IF Truthy(c.user_id) THEN c.user_id ELSE "organization"]

\* PineconeClient.upsert_vectors: what the index holds after the call
VectorData(c) ==
    [id |-> c.id, user_id |-> IF Truthy(c.user_id) THEN c.user_id ELSE None]

upsert_vectors(idx, chunks) ==
    LET vectors == {VectorData(c) : c \in {x \in chunks : x.embedding = Vec}}
    IN  IF vectors # {}
          THEN {e \in idx : e.id \notin {v.id : v \in vectors}} \cup vectors
          ELSE idx

\* PineconeClient.delete_vectors: what the index holds after the call
delete_vectors(idx, chunk_ids) == {e \in idx : e.id \notin chunk_ids}

RunOp == "process_and_embed_document"
DeleteOp == "delete_document"

FreeRun == CHOOSE t \in RunIds : runs[t].pc = "idle" /\ \A s \in RunIds : runs[s].pc = "idle" => t <= s

\* process_and_embed_document is called; process_document runs up to its
\* await on the document processor
process_and_embed_document(d) ==
    /\ \E t \in RunIds : runs[t].pc = "idle"
    /\ calls' = calls + 1
    /\ IF d \notin documents
         THEN /\ last' = Returned(RunOp, d, MsgNotFound)
              /\ UNCHANGED <<objs, runs>>
         ELSE /\ objs' = [objs EXCEPT ![d].status = PROCESSING]
              /\ runs' = [runs EXCEPT ![FreeRun] =
                    [IdleRun EXCEPT !.pc = "extracting", !.doc = d]]
              /\ last' = last
    /\ UNCHANGED <<documents, embedder, vector_db, index, dels, deleted, search,
                   pinecone, upsert, inits, listing, userdb, tasks>>

\* mutant of RunAfter: a run whose stage raised goes on to the next stage
RunAfter_GoesOn(t, r) ==
    IF r.pc = "failed"
      THEN [runs[t] EXCEPT !.pc = IF runs[t].pc = "extracting" THEN "embedding" ELSE "storing"]
      ELSE [runs[t] EXCEPT !.pc = r.pc, !.batch = r.batch]

\* the coroutine of a run after a step that left it at r.pc, and the outcome of
\* the call when the step raised
RunAfter(t, r) ==
    IF r.pc = "failed" THEN IdleRun ELSE [runs[t] EXCEPT !.pc = r.pc, !.batch = r.batch]
LastAfter(t, r) ==
    IF r.pc = "failed" THEN Returned(RunOp, runs[t].doc, r.err) ELSE last

\* mutant of process_document_resume: the document stored after extraction
\* has lost its owner
process_document_resume_Disowns(t, ok, n) ==
    /\ runs[t].pc = "extracting"
    /\ LET d == runs[t].doc
           o1 == [objs EXCEPT ![d].chunks = NewChunks(objs, d, n),
                              ![d].gen = @ + 1,
                              ![d].status = PROCESSED,
                              ![d].user_id = None]
           r == IF ok THEN embed_document_call(o1, documents \cup {d}, d)
                      ELSE Fail(objs, documents, d, MsgExtract)
       IN  /\ objs' = r.objs
           /\ documents' = IF ok THEN documents \cup {d} ELSE documents
           /\ runs' = [runs EXCEPT ![t] = RunAfter(t, r)]
           /\ last' = LastAfter(t, r)
    /\ UNCHANGED <<embedder, vector_db, index, dels, deleted, calls, search,
                   pinecone, upsert, inits, listing, userdb, tasks>>

\* the document processor answers: process_document ends and, on success,
\* embed_document runs up to its await on the embedder
process_document_resume(t, ok, n) ==
    /\ runs[t].pc = "extracting"
    /\ LET d == runs[t].doc
           o1 == [objs EXCEPT ![d].chunks = NewChunks(objs, d, n),
                              ![d].gen = @ + 1,
                              ![d].status = PROCESSED]
           r == IF ok THEN embed_document_call(o1, documents \cup {d}, d)
                      ELSE Fail(objs, documents, d, MsgExtract)
       IN  /\ objs' = r.objs
           /\ documents' = IF ok THEN documents \cup {d} ELSE documents
           /\ runs' = [runs EXCEPT ![t] = RunAfter(t, r)]
           /\ last' = LastAfter(t, r)
    /\ UNCHANGED <<embedder, vector_db, index, dels, deleted, calls, search,
                   pinecone, upsert, inits, listing, userdb, tasks>>

\* what embed_document assigns to the chunks from the embedder's answer
AssignEmbeddings(chunks, embeddings) ==
    [i \in DOMAIN chunks |->
        IF i <= Len(embeddings) THEN [chunks[i] EXCEPT !.embedding = embeddings[i]]
                                ELSE chunks[i]]

\* the embedder answers: embed_document ends and, on success, store_vectors
\* runs up to its await on the vector index
embed_document_resume(t, ok, embeddings) ==
    /\ runs[t].pc = "embedding"
    /\ LET d == runs[t].doc
           o1 == [objs EXCEPT ![d].chunks = AssignEmbeddings(@, embeddings),
                              ![d].status = EMBEDDED]
           r == IF ok THEN store_vectors_call(o1, documents, d)
                      ELSE Fail(objs, documents, d, MsgEmbed)
       IN  /\ objs' = r.objs
           /\ runs' = [runs EXCEPT ![t] = RunAfter(t, r)]
           /\ last' = LastAfter(t, r)
    /\ UNCHANGED <<documents, embedder, vector_db, index, dels, deleted, calls, search,
                   pinecone, upsert, inits, listing, userdb, tasks>>

\* the vector index answers the upsert: store_vectors and the pipeline end
store_vectors_resume(t, outcome) ==
    /\ runs[t].pc = "storing"
    /\ LET d == runs[t].doc
           r == Fail(objs, documents, d, IF outcome = "false" THEN MsgStoreFalse ELSE MsgUpsert)
       IN  IF outcome = "ok"
             THEN /\ index' = upsert_vectors(index, runs[t].batch)
                  /\ runs' = [runs EXCEPT ![t] = IdleRun]
                  /\ last' = Returned(RunOp, d, "done")
                  /\ objs' = objs
             ELSE /\ index' = index
                  /\ runs' = [runs EXCEPT ![t] = RunAfter(t, r)]
                  /\ last' = LastAfter(t, r)
                  /\ objs' = r.objs
    /\ UNCHANGED <<documents, embedder, vector_db, dels, deleted, calls, search,
                   pinecone, upsert, inits, listing, userdb, tasks>>

(* ------------------------------ deletion ------------------------------- *)

\* mutant of get_document: the owner is not compared with the caller
get_document_NoOwnerCheck(d, user_id) ==
    IF d \notin documents THEN NoDoc ELSE objs[d]

\* DocumentService.get_document: the document when the caller may see it
get_document(d, user_id) ==
    IF d \notin documents THEN NoDoc
    ELSE IF Truthy(user_id) /\ objs[d].user_id # user_id /\ objs[d].user_id # None
           THEN NoDoc
           ELSE objs[d]

ChunkIds(doc) == {doc.chunks[i].id : i \in DOMAIN doc.chunks}

FreeDel == CHOOSE k \in DelIds : dels[k].pc = "idle" /\ \A j \in DelIds : dels[j].pc = "idle" => k <= j

\* delete_document is called: it returns at once (False, or True when there
\* is nothing to delete in the index) or awaits delete_vectors
delete_document(d, user_id) ==
    /\ \E k \in DelIds : dels[k].pc = "idle"
    /\ calls' = calls + 1
    /\ IF get_document(d, user_id) = NoDoc
         THEN /\ last' = Returned(DeleteOp, d, "false")
              /\ UNCHANGED <<documents, deleted, dels>>
         ELSE IF vector_db /\ objs[d].chunks # <<>>
           THEN /\ dels' = [dels EXCEPT ![FreeDel] =
                        [pc |-> "deleting", doc |-> d, ids |-> ChunkIds(objs[d])]]
                /\ UNCHANGED <<documents, deleted, last>>
           ELSE /\ last' = Returned(DeleteOp, d, "true")
                /\ documents' = documents \ {d}
                /\ deleted' = deleted \cup {d}
                /\ dels' = dels
    /\ UNCHANGED <<objs, embedder, vector_db, index, runs, search,
                   pinecone, upsert, inits, listing, userdb, tasks>>

\* mutant of delete_document_resume: the key is removed before the index is
\* asked, so a failing index delete loses the document
delete_document_resume_Forgets(k, ok) ==
    /\ dels[k].pc = "deleting"
    /\ LET d == dels[k].doc
       IN  /\ documents' = documents \ {d}
           /\ index' = IF ok THEN delete_vectors(index, dels[k].ids) ELSE index
           /\ IF ok /\ d \in documents
                THEN /\ deleted' = deleted \cup {d}
                     /\ last' = Returned(DeleteOp, d, "true")
                ELSE /\ deleted' = deleted
                     /\ last' = Returned(DeleteOp, d, "raised")
    /\ dels' = [dels EXCEPT ![k] = IdleDel]
    /\ UNCHANGED <<objs, embedder, vector_db, runs, calls, search,
                   pinecone, upsert, inits, listing, userdb, tasks>>

\* the vector index answers the delete: delete_document removes the key
delete_document_resume(k, ok) ==
    /\ dels[k].pc = "deleting"
    /\ LET d == dels[k].doc
       IN  IF ok /\ d \in documents
             THEN /\ index' = delete_vectors(index, dels[k].ids)
                  /\ documents' = documents \ {d}
                  /\ deleted' = deleted \cup {d}
                  /\ last' = Returned(DeleteOp, d, "true")
             ELSE /\ index' = IF ok THEN delete_vectors(index, dels[k].ids) ELSE index
                  /\ last' = Returned(DeleteOp, d, "raised")
                  /\ UNCHANGED <<documents, deleted>>
    /\ dels' = [dels EXCEPT ![k] = IdleDel]
    /\ UNCHANGED <<objs, embedder, vector_db, runs, calls, search,
                   pinecone, upsert, inits, listing, userdb, tasks>>

(* ------------------------------- status -------------------------------- *)
NoStatus == [document_id |-> 0]

\* mutant of get_document_status: the progress is the share of embedded chunks
get_document_status_ByChunks(d, user_id) ==
    LET document == get_document(d, user_id)
    IN  IF document = NoDoc THEN NoStatus
        ELSE [document_id |-> d,
              status |-> document.status,
              chunks_count |-> Len(document.chunks),
              embedded_count |-> Cardinality(EmbeddedChunks(document)),
              error_message |-> document.error_message,
              progress_percentage |->
                  IF document.chunks = <<>> THEN 0
                  ELSE (100 * Cardinality(EmbeddedChunks(document))) \div Len(document.chunks)]

\* DocumentService.get_document_status
get_document_status(d, user_id) ==
    LET document == get_document(d, user_id)
    IN  IF document = NoDoc THEN NoStatus
        ELSE [document_id |-> d,
              status |-> document.status,
              chunks_count |-> Len(document.chunks),
              embedded_count |-> Cardinality(EmbeddedChunks(document)),
              error_message |-> document.error_message,
              progress_percentage |->
                  CASE document.status = UPLOADED -> 0
                    [] document.status = PROCESSING -> 25
                    [] document.status = PROCESSED -> 50
                    [] document.status = EMBEDDED -> 100
                    [] document.status = ERROR -> 0]

\* the answers of the embedder: any number of vectors.  The code tests a
\* vector only for truthiness, where an empty vector is like an absent one, so
\* one answer with an empty vector stands for them
EmbedderAnswers ==
    {[i \in 1..n |-> Vec] : n \in 0..MaxChunks} \cup {<<EmptyVec>>}

(* ------------------------------- search -------------------------------- *)
MsgSearch == "Failed to search documents"

\* the vectors of an index that match the query (and its metadata filter), best
\* score first: ids, stored owner ids (None: no user_id in the metadata), scores
Owners == Users \cup {None}
RankedIndexes ==
    UNION {{r \in [1..n -> [user_id : Owners, score : 0..MaxScore]] :
               \A i \in 1..(n - 1) : r[i].score >= r[i + 1].score}
           : n \in 0..MaxMatches}
WithIds(r) == [i \in DOMAIN r |-> [id |-> i, user_id |-> r[i].user_id, score |-> r[i].score]]

\* the number of candidates search_vectors asks the index for
QueryTopK(top_k) == top_k

\* mutant of index_query: the index answers with every match
index_query_Unbounded(ranked, top_k) == ranked

\* Pinecone's index.query: the top_k best matches
index_query(ranked, top_k) ==
    SubSeq(ranked, 1, IF top_k < Len(ranked) THEN top_k ELSE Len(ranked))

\* mutant of Visible: no access filter
Visible_NoFilter(match, user_id) == TRUE

\* the access filter of search_vectors on one match
Visible(match, user_id) ==
    IF Truthy(user_id)
      THEN ~(Truthy(match.user_id) /\ match.user_id # user_id)
      ELSE TRUE

\* mutant of search_vectors: a score equal to the threshold is dropped
search_vectors_Exclusive(ranked, top_k, threshold, user_id) ==
    LET Keep(m) == m.score > threshold /\ Visible(m, user_id)
    IN  SelectSeq(index_query(ranked, QueryTopK(top_k)), Keep)

\* PineconeClient.search_vectors
search_vectors(ranked, top_k, threshold, user_id) ==
    LET Keep(m) == m.score >= threshold /\ Visible(m, user_id)
    IN  SelectSeq(index_query(ranked, QueryTopK(top_k)), Keep)

\* mutant of search_documents: a failure of the embedder or of the index is
\* swallowed and the search answers with an empty list
search_documents_Swallows(top_k, threshold, user_id, outcome) ==
    /\ ~search.called
    /\ search' = [search EXCEPT
            !.called = TRUE, !.top_k = top_k, !.threshold = threshold, !.user_id = user_id,
            !.requested = IF embedder /\ vector_db /\ outcome # "embedder"
                            THEN QueryTopK(top_k) ELSE 0,
            !.raised = IF embedder /\ vector_db /\ outcome # "ok" THEN outcome ELSE "none",
            !.error = IF ~embedder THEN MsgNoEmbedder
                      ELSE IF ~vector_db THEN MsgNoVectorDb
                      ELSE None,
            !.results = IF embedder /\ vector_db /\ outcome = "ok"
                          THEN search_vectors(search.ranked, top_k, threshold, user_id)
                          ELSE <<>>]
    /\ UNCHANGED <<documents, objs, embedder, vector_db, index, runs, dels, deleted,
                   calls, last, pinecone, upsert, inits, listing, userdb, tasks>>

\* DocumentService.search_documents; outcome is what the embedder and the
\* vector index do: both answer, or one of them raises ("embedder", "index");
\* raised is the remote call that raised, "none" when none was made or failed
search_documents(top_k, threshold, user_id, outcome) ==
    /\ ~search.called
    /\ search' = [search EXCEPT
            !.called = TRUE, !.top_k = top_k, !.threshold = threshold, !.user_id = user_id,
            !.requested = IF embedder /\ vector_db /\ outcome # "embedder"
                            THEN QueryTopK(top_k) ELSE 0,
            !.raised = IF embedder /\ vector_db /\ outcome # "ok" THEN outcome ELSE "none",
            !.error = IF ~embedder THEN MsgNoEmbedder
                      ELSE IF ~vector_db THEN MsgNoVectorDb
                      ELSE IF outcome # "ok" THEN MsgSearch
                      ELSE None,
            !.results = IF embedder /\ vector_db /\ outcome = "ok"
                          THEN search_vectors(search.ranked, top_k, threshold, user_id)
                          ELSE <<>>]
    /\ UNCHANGED <<documents, objs, embedder, vector_db, index, runs, dels, deleted,
                   calls, last, pinecone, upsert, inits, listing, userdb, tasks>>

SearchInit ==
    /\ documents = {}
    /\ objs = [d \in DocIds |-> NoDoc]
    /\ embedder \in BOOLEAN
    /\ vector_db \in BOOLEAN
    /\ index = {}
    /\ runs = [t \in RunIds |-> IdleRun]
    /\ dels = [k \in DelIds |-> IdleDel]
    /\ deleted = {}
    /\ calls = 0
    /\ last = NoCall
    /\ \E r \in RankedIndexes : search = [NoSearch EXCEPT !.ranked = WithIds(r)]
    /\ pinecone = NewPinecone(TRUE)
    /\ upsert = NoUpsert
    /\ inits = [c \in ClientIds |-> IdleInit]
    /\ listing = NoListing
    /\ userdb = NoUsers
    /\ tasks = [k \in TaskIds |-> IdleTask]

Callers == Users \cup {None, ""}

SearchNext ==
    \E top_k \in 1..MaxMatches, threshold \in 0..MaxScore, user_id \in Callers,
       outcome \in {"ok", "embedder", "index"} :
        search_documents(top_k, threshold, user_id, outcome)

SearchSpec == SearchInit /\ [][SearchNext]_vars

\* uuid4 draws any unused id: the ids are interchangeable, the least one is taken
NextId == CHOOSE id \in FreshIds : \A other \in FreshIds : id <= other

\* the ids a caller can name: those handed out and one that never was (ids
\* that were never handed out are all alike)
CallIds == (DocIds \ FreshIds) \cup (IF FreshIds # {} THEN {NextId} ELSE {})

\* the users who create a document: users are alike, so the first document of
\* a behaviour is created by u1
Creators == IF FreshIds = DocIds THEN {"u1"} ELSE Users

\* the document service under concurrent pipeline runs and deletes, MaxCalls
\* calls in all
Next ==
    \/ set_embedder
    \/ set_vector_db
    \/ /\ calls < MaxCalls
       /\ \E u \in Creators, a \in AccessLevel : create_document(NextId, u, a)
    \/ /\ calls < MaxCalls
       /\ \E d \in CallIds : process_and_embed_document(d)
    \/ \E t \in RunIds, n \in 0..MaxChunks : process_document_resume(t, TRUE, n)
    \/ \E t \in RunIds : process_document_resume(t, FALSE, 0)
    \/ \E t \in RunIds, e \in EmbedderAnswers : embed_document_resume(t, TRUE, e)
    \/ \E t \in RunIds : embed_document_resume(t, FALSE, <<>>)
    \/ \E t \in RunIds, outcome \in {"ok", "false", "raise"} : store_vectors_resume(t, outcome)
    \/ /\ calls < MaxCalls
       /\ \E d \in CallIds, u \in Users \cup {None} : delete_document(d, u)
    \/ \E k \in DelIds, ok \in BOOLEAN : delete_document_resume(k, ok)

Spec == Init /\ [][Next]_vars

(* ------------------- the Pinecone adapter called directly -------------- *)
InitializeOp == "initialize"
UpsertOp == "upsert_vectors"
MsgInitialize == "Failed to initialize Pinecone"

\* mutant of Initialized: the index is created without looking at the list
Initialized_NoLookup(p, outcome) ==
    IF outcome = "list_raises" THEN [p |-> p, ok |-> FALSE]
    ELSE IF outcome = "create_raises"
      THEN [p |-> [p EXCEPT !.create_requests = @ + 1], ok |-> FALSE]
      ELSE [p |-> [p EXCEPT !.create_requests = @ + 1, !.creates = @ + 1,
                            !.exists = TRUE, !.connected = TRUE],
            ok |-> TRUE]

\* PineconeClient.initialize on the account and connection p; outcome is what
\* Pinecone does: it answers, list_indexes raises or create_index raises
Initialized(p, outcome) ==
    IF outcome = "list_raises" THEN [p |-> p, ok |-> FALSE]
    ELSE IF p.exists THEN [p |-> [p EXCEPT !.connected = TRUE], ok |-> TRUE]
    ELSE IF outcome = "create_raises"
      THEN [p |-> [p EXCEPT !.create_requests = @ + 1], ok |-> FALSE]
      ELSE [p |-> [p EXCEPT !.create_requests = @ + 1, !.creates = @ + 1,
                            !.exists = TRUE, !.connected = TRUE],
            ok |-> TRUE]

InitializeOutcomes == {"ok", "list_raises", "create_raises"}

initialize(outcome) ==
    LET r == Initialized(pinecone, outcome)
    IN  /\ pinecone' = r.p
        /\ calls' = calls + 1
        /\ last' = Returned(InitializeOp, 0, IF r.ok THEN "true" ELSE MsgInitialize)
        /\ UNCHANGED <<documents, objs, embedder, vector_db, index, runs, dels, deleted,
                       search, upsert, inits, listing, userdb, tasks>>

\* the chunk lists given to upsert_vectors: the chunks of one document, each
\* with no embedding, an empty one or a vector
ChunkLists ==
    UNION {{[i \in 1..n |-> [id |-> <<0, 0, i>>, embedding |-> e[i], user_id |-> o]] :
               e \in [1..n -> {NoEmb, EmptyVec, Vec}], o \in Owners}
           : n \in 0..MaxChunks}

Range(seq) == {seq[i] : i \in DOMAIN seq}

\* mutant of VectorsOf: every chunk becomes a vector
VectorsOf_All(chunks) == {VectorData(c) : c \in chunks}

\* the vectors upsert_vectors prepares from a chunk list
VectorsOf(chunks) == {VectorData(c) : c \in {x \in chunks : x.embedding = Vec}}

\* PineconeClient.upsert_vectors called on a chunk list: it initializes the
\* client when it is not connected, then sends one write if it has vectors
upsert_vectors_call(chunks, init_outcome, write_outcome) ==
    LET r == IF pinecone.connected THEN [p |-> pinecone, ok |-> TRUE]
                                   ELSE Initialized(pinecone, init_outcome)
        vectors == VectorsOf(Range(chunks))
        sent == r.ok /\ vectors # {}
        ok == r.ok /\ (sent => write_outcome = "ok")
    IN  /\ pinecone' = r.p
        /\ index' = IF sent /\ ok
                      THEN {e \in index : e.id \notin {v.id : v \in vectors}} \cup vectors
                      ELSE index
        /\ upsert' = [chunks |-> chunks,
                      sent |-> sent,
                      written |-> IF sent THEN {v.id : v \in vectors} ELSE {}]
        /\ calls' = calls + 1
        /\ last' = Returned(UpsertOp, 0, IF ok THEN "true" ELSE MsgUpsert)
        /\ UNCHANGED <<documents, objs, embedder, vector_db, runs, dels, deleted, search,
                       inits, listing, userdb, tasks>>

\* what an index can hold from earlier upserts
StoredIndexes == {VectorsOf(Range(chunks)) : chunks \in ChunkLists}

\* the states a PineconeClient and its account can be in before a call
Pinecones ==
    {NewPinecone(exists) : exists \in BOOLEAN}
        \cup {[NewPinecone(TRUE) EXCEPT !.connected = TRUE]}

AdapterInit ==
    /\ documents = {}
    /\ objs = [d \in DocIds |-> NoDoc]
    /\ embedder = FALSE
    /\ vector_db = FALSE
    /\ runs = [t \in RunIds |-> IdleRun]
    /\ dels = [k \in DelIds |-> IdleDel]
    /\ deleted = {}
    /\ calls = 0
    /\ last = NoCall
    /\ search = NoSearch
    /\ pinecone \in Pinecones
    /\ index \in IF pinecone.exists THEN StoredIndexes ELSE {{}}
    /\ upsert = NoUpsert
    /\ inits = [c \in ClientIds |-> IdleInit]
    /\ listing = NoListing
    /\ userdb = NoUsers
    /\ tasks = [k \in TaskIds |-> IdleTask]

\* initialize called again and again on one PineconeClient, MaxCalls calls in all
InitializeNext ==
    /\ calls < MaxCalls
    /\ \E outcome \in InitializeOutcomes : initialize(outcome)

InitializeSpec == AdapterInit /\ [][InitializeNext]_vars

\* one call of upsert_vectors on a chunk list
UpsertNext ==
    /\ last = NoCall
    /\ \/ \E chunks \in ChunkLists, write_outcome \in {"ok", "raise"} :
              upsert_vectors_call(chunks, "ok", write_outcome)
       \/ /\ ~pinecone.connected
          /\ \E chunks \in ChunkLists, init_outcome \in InitializeOutcomes \ {"ok"} :
                 upsert_vectors_call(chunks, init_outcome, "ok")

UpsertSpec == AdapterInit /\ [][UpsertNext]_vars

(* ------------------- initialize called concurrently -------------------- *)
\* initialize holds no lock and never suspends inside one event loop
\* (create_collection waits with time.sleep), so calls interleave only between
\* PineconeClients in different workers on one account: the points at which
\* another call can act are its two requests to Pinecone.

\* initialize of client c up to its first request: list_indexes answers, and
\* the client connects when the name is listed
initialize_call(c) ==
    /\ inits[c].pc = "idle"
    /\ inits' = [inits EXCEPT ![c] =
            IF pinecone.exists THEN [pc |-> "done", connected |-> TRUE]
                               ELSE [pc |-> "creating", connected |-> FALSE]]
    /\ UNCHANGED <<documents, objs, embedder, vector_db, index, runs, dels, deleted,
                   calls, last, search, pinecone, upsert, listing, userdb, tasks>>

\* client c saw the name absent and calls create_collection: create_index is
\* rejected by Pinecone when the name is in use by now, and the exception
\* leaves initialize as RuntimeError; otherwise the index is created, the
\* wait loop ends and the client connects
initialize_resume(c) ==
    /\ inits[c].pc = "creating"
    /\ IF pinecone.exists
         THEN /\ pinecone' = [pinecone EXCEPT !.create_requests = @ + 1]
              /\ inits' = [inits EXCEPT ![c].pc = "raised"]
         ELSE /\ pinecone' = [pinecone EXCEPT !.create_requests = @ + 1,
                                              !.creates = @ + 1, !.exists = TRUE]
              /\ inits' = [inits EXCEPT ![c] = [pc |-> "done", connected |-> TRUE]]
    /\ UNCHANGED <<documents, objs, embedder, vector_db, index, runs, dels, deleted,
                   calls, last, search, upsert, listing, userdb, tasks>>

ConcurrentInitializeNext ==
    \/ \E c \in ClientIds : initialize_call(c)
    \/ \E c \in ClientIds : initialize_resume(c)

ConcurrentInitializeSpec == AdapterInit /\ [][ConcurrentInitializeNext]_vars

(* ------------------------- list_documents ------------------------------ *)
Filenames == {"a.txt", "b.txt"}

\* the documents a store holds after a restart: any filename and any owner, a
\* document without owner being PUBLIC; list_documents reads neither their
\* status nor their chunks, they are taken as just uploaded
MemoryDocuments ==
    UNION {{[i \in 1..n |-> [id |-> <<"uuid", i>>, filename |-> f[i].filename,
                             user_id |-> f[i].user_id,
                             status |-> UPLOADED,
                             access_level |-> IF f[i].user_id = None THEN PUBLIC ELSE PRIVATE]] :
               f \in [1..n -> [filename : Filenames, user_id : Owners]]}
           : n \in 0..MaxListed}

\* what index.query returns to get_all_documents: the metadata of the stored
\* vectors, in the order of the answer
StoredMatches ==
    UNION {[1..n -> [filename : Filenames, user_id : Owners]] : n \in 0..MaxListed}

\* get_all_documents groups the matches by filename: one entry per filename,
\* with the owner of the first match that has it
RECURSIVE DistinctDocuments(_, _)
DistinctDocuments(matches, seen) ==
    IF matches = <<>> THEN <<>>
    ELSE LET m == Head(matches)
         IN  IF m.filename \in seen
               THEN DistinctDocuments(Tail(matches), seen)
               ELSE <<[filename |-> m.filename, user_id |-> m.user_id]>>
                        \o DistinctDocuments(Tail(matches), seen \cup {m.filename})

\* PineconeClient.get_all_documents: an exception of the query is swallowed
\* and the list is empty
get_all_documents(matches, outcome) ==
    IF outcome = "ok" THEN DistinctDocuments(matches, {}) ELSE <<>>

\* the Document list_documents builds for an entry of the index
RecoveredDocument(p) ==
    [id |-> <<"pinecone", p.filename>>, filename |-> p.filename, user_id |-> p.user_id,
     status |-> EMBEDDED,
     access_level |-> IF p.user_id = None THEN PUBLIC ELSE PRIVATE]

HasFilename(docs, filename) == \E i \in DOMAIN docs : docs[i].filename = filename

\* mutant of Included: entries of other users are not skipped
Included_Everyone(p, user_id) == TRUE

\* list_documents takes an entry of the index that has no owner or is the
\* caller's, and skips one of another user
Included(p, user_id) == p.user_id = None \/ p.user_id = user_id

\* the loop of list_documents over the entries of the index
RECURSIVE MergedDocuments(_, _, _, _)
MergedDocuments(pinecone_docs, user_docs, org_docs, user_id) ==
    IF pinecone_docs = <<>> THEN [user_docs |-> user_docs, org_docs |-> org_docs]
    ELSE LET p == Head(pinecone_docs)
             rest == Tail(pinecone_docs)
         IN  IF HasFilename(user_docs \o org_docs, p.filename) \/ ~Included(p, user_id)
               THEN MergedDocuments(rest, user_docs, org_docs, user_id)
             ELSE IF p.user_id = None
               THEN MergedDocuments(rest, user_docs,
                                    Append(org_docs, RecoveredDocument(p)), user_id)
               ELSE MergedDocuments(rest, Append(user_docs, RecoveredDocument(p)),
                                    org_docs, user_id)

\* what list_documents returns
ListedDocuments(memory, matches, has_vector_db, user_id, outcome) ==
    IF Truthy(user_id)
      THEN LET user_docs == SelectSeq(memory, LAMBDA doc : doc.user_id = user_id)
               org_docs == SelectSeq(memory, LAMBDA doc : doc.user_id = None)
               merged == IF has_vector_db
                           THEN MergedDocuments(get_all_documents(matches, outcome),
                                                user_docs, org_docs, user_id)
                           ELSE [user_docs |-> user_docs, org_docs |-> org_docs]
           IN  merged.user_docs \o merged.org_docs
      ELSE memory

list_documents(user_id, outcome) ==
    /\ ~listing.called
    /\ listing' = [listing EXCEPT
            !.called = TRUE, !.user_id = user_id, !.outcome = outcome,
            !.result = ListedDocuments(listing.memory, listing.matches, vector_db,
                                       user_id, outcome)]
    /\ UNCHANGED <<documents, objs, embedder, vector_db, index, runs, dels, deleted,
                   calls, last, search, pinecone, upsert, inits, userdb, tasks>>

ListInit ==
    /\ documents = {}
    /\ objs = [d \in DocIds |-> NoDoc]
    /\ embedder = FALSE
    /\ vector_db \in BOOLEAN
    /\ index = {}
    /\ runs = [t \in RunIds |-> IdleRun]
    /\ dels = [k \in DelIds |-> IdleDel]
    /\ deleted = {}
    /\ calls = 0
    /\ last = NoCall
    /\ search = NoSearch
    /\ pinecone = NewPinecone(TRUE)
    /\ upsert = NoUpsert
    /\ inits = [c \in ClientIds |-> IdleInit]
    /\ \E memory \in MemoryDocuments, matches \in StoredMatches :
           listing = [NoListing EXCEPT !.memory = memory, !.matches = matches]
    /\ userdb = NoUsers
    /\ tasks = [k \in TaskIds |-> IdleTask]

ListNext ==
    \E user_id \in Callers, outcome \in {"ok", "raise"} : list_documents(user_id, outcome)

ListSpec == ListInit /\ [][ListNext]_vars

(* ------------------- searching what the pipeline stored ---------------- *)
\* the answers index.query can give on the vectors idx: they are ranked in some
\* order, with scores that do not increase
RankingsOf(idx) ==
    LET n == Cardinality(idx)
        Orders == {f \in [1..n -> idx] : \A i, j \in 1..n : f[i] = f[j] => i = j}
        Scores == {sc \in [1..n -> 0..MaxScore] :
                      \A i \in 1..(n - 1) : sc[i] >= sc[i + 1]}
    IN  {[i \in 1..n |-> [id |-> f[i].id, user_id |-> f[i].user_id, score |-> sc[i]]] :
            f \in Orders, sc \in Scores}

IndexIds == {e.id : e \in index}

\* the ids of the chunks a search returns
ResultIds(results) == {results[i].id : i \in DOMAIN results}

\* document d has just completed a pipeline run in which every chunk got a
\* vector, and the index holds its chunks and nothing else
JustIngested(d) ==
    /\ d \in documents
    /\ last = Returned(RunOp, d, "done")
    /\ objs[d].status = EMBEDDED
    /\ objs[d].chunks # <<>>
    /\ \A i \in DOMAIN objs[d].chunks : objs[d].chunks[i].embedding = Vec
    /\ IndexIds = ChunkIds(objs[d])

(* ------------- search and deletion on an ingested document ------------ *)
\* document 1 as a completed pipeline run leaves it (n chunks, all embedded)
IngestedDocument(user_id, access_level, n) ==
    LET doc == NewDocument(user_id, access_level)
    IN  [doc EXCEPT !.status = EMBEDDED, !.gen = 1,
                    !.chunks = [i \in 1..n |-> [id |-> <<1, 1, i>>, embedding |-> Vec,
                                                user_id |-> doc.user_id]]]

\* the service after create_document and one complete run on the document
IngestedInit ==
    /\ documents = {1}
    /\ embedder = TRUE
    /\ vector_db = TRUE
    /\ \E a \in AccessLevel, n \in 1..MaxChunks :
           objs = [d \in DocIds |-> IF d = 1 THEN IngestedDocument("u1", a, n) ELSE NoDoc]
    /\ index = {VectorData(c) : c \in EmbeddedChunks(objs[1])}
    /\ runs = [t \in RunIds |-> IdleRun]
    /\ dels = [k \in DelIds |-> IdleDel]
    /\ deleted = {}
    /\ calls = 2
    /\ last = Returned(RunOp, 1, "done")
    /\ \E r \in RankingsOf(index) : search = [NoSearch EXCEPT !.ranked = r]
    /\ pinecone = NewPinecone(TRUE)
    /\ upsert = NoUpsert
    /\ inits = [c \in ClientIds |-> IdleInit]
    /\ listing = NoListing
    /\ userdb = NoUsers
    /\ tasks = [k \in TaskIds |-> IdleTask]

\* one search and one deletion on the ingested document, in any order
IngestedNext ==
    \/ \E top_k \in 1..MaxMatches, threshold \in 0..MaxScore, user_id \in Callers,
          outcome \in {"ok", "embedder", "index"} :
           search_documents(top_k, threshold, user_id, outcome)
    \/ /\ last = Returned(RunOp, 1, "done")
       /\ \A k \in DelIds : dels[k] = IdleDel
       /\ \E d \in CallIds, u \in Users \cup {None} : delete_document(d, u)
    \/ \E k \in DelIds, ok \in BOOLEAN : delete_document_resume(k, ok)

IngestedSpec == IngestedInit /\ [][IngestedNext]_vars

(* --------------------------- user management -------------------------- *)
\* UserRole (models/auth.py) and get_role_level
ADMIN == "admin"
SUPERVISOR == "supervisor"
TEACHER == "teacher"
STUDENT == "student"
Roles == {ADMIN, SUPERVISOR, TEACHER, STUDENT}
get_role_level(role) ==
    CASE role = ADMIN -> 0
      [] role = SUPERVISOR -> 1
      [] role = TEACHER -> 2
      [] role = STUDENT -> 3
can_create_role(creator_role, target_role) ==
    get_role_level(creator_role) < get_role_level(target_role)

Orgs == {"org1", "org2"}

\* the path _update_user_hierarchy builds from parent p upwards: the chain of
\* parent_id links, root first, cut at the first id that has no user record
\* (the code's loop does not end on a cycle of links; ids are fresh, and there
\* is none)
RECURSIVE PathFrom(_, _, _)
PathFrom(users, p, fuel) ==
    IF p = None \/ fuel = 0 THEN <<>>
    ELSE IF users[p] = NoUser THEN <<>>
    ELSE Append(PathFrom(users, users[p].parent_id, fuel - 1), p)

\* the users the breadth-first search of _update_user_hierarchy finds under u
RECURSIVE DescendantsOf(_, _, _)
DescendantsOf(users, us, fuel) ==
    LET next == {v \in People : users[v] # NoUser /\ users[v].parent_id \in us}
    IN  IF fuel = 0 \/ next = {} THEN {}
        ELSE next \cup DescendantsOf(users, next, fuel - 1)

\* the students of the classes of teacher t
StudentsOf(classes, t) ==
    UNION {Range(classes[c].students) :
               c \in {c \in ClassIds : classes[c] # NoClass /\ classes[c].teacher_id = t}}

\* the hierarchy record _update_user_hierarchy computes for u from the users
\* and the classes it reads: the path, and the descendants, for a teacher with
\* the students of the teacher's classes
HierarchyDoc(users, classes, u) ==
    [path |-> PathFrom(users, users[u].parent_id, Cardinality(People)),
     children |-> DescendantsOf(users, {u}, Cardinality(People))
                      \cup (IF users[u].role = TEACHER THEN StudentsOf(classes, u) ELSE {})]

\* UserManagementService._update_user_hierarchy: nothing when the user has no
\* record, else the hierarchy record is replaced
update_user_hierarchy(users, hierarchies, u) ==
    IF u = None THEN hierarchies
    ELSE IF users[u] = NoUser THEN hierarchies
    ELSE [hierarchies EXCEPT ![u] = HierarchyDoc(users, userdb.class_assignments, u)]

UserOp == "create_user"
MsgCreate == "raised"

\* the steps of create_user that talk to Keycloak or to the database, in the
\* order of the code; "ok" when none of them fails
CreateOutcomes == {"ok", "keycloak", "role", "insert", "hierarchy", "parent"}

\* the realm after create_keycloak_user made the user new: the role is
\* assigned last, and a token without role reads as student
KeycloakWith(db, new, role) ==
    [db EXCEPT !.keycloak = @ \cup {new}, !.token_role[new] = role]

\* the cleanup of create_user: the Keycloak user is deleted when the request
\* of the deletion succeeds, and a failure of it is swallowed
Cleanup(db, new, role, cleanup) ==
    IF cleanup THEN db ELSE KeycloakWith(db, new, role)

\* UserManagementService.create_user by creator_id, Keycloak naming the new
\* user new: a creator without record counts as admin; the request is refused
\* when the creator's role is not above the requested one; outcome names the
\* step that fails, and cleanup says whether the deletion of the Keycloak user
\* in the except block goes through
create_user(creator_id, new, role, parent_id, outcome, cleanup) ==
    LET creator == userdb.users[creator_id]
        creator_role == IF creator = NoUser THEN ADMIN ELSE creator.role
        user_doc == [role |-> role,
                     parent_id |-> IF parent_id # None THEN parent_id ELSE creator_id,
                     organization_id |->
                         IF creator = NoUser THEN None ELSE creator.organization_id]
        users1 == [userdb.users EXCEPT ![new] = user_doc]
        h1 == update_user_hierarchy(users1, userdb.user_hierarchies, new)
        h2 == update_user_hierarchy(users1, h1, user_doc.parent_id)
    IN  /\ creator_id \in userdb.keycloak
        /\ new \notin userdb.keycloak
        /\ userdb.users[new] = NoUser
        /\ calls' = calls + 1
        /\ IF ~can_create_role(creator_role, role) \/ outcome = "keycloak"
             THEN /\ userdb' = userdb
                  /\ last' = Returned(UserOp, 0, MsgCreate)
             ELSE CASE outcome = "role" ->
                           \* create_keycloak_user raised after the user was made:
                           \* keycloak_user_id is not bound, nothing is cleaned up
                           /\ userdb' = KeycloakWith(userdb, new, STUDENT)
                           /\ last' = Returned(UserOp, 0, MsgCreate)
                    [] outcome = "insert" ->
                           /\ userdb' = Cleanup(userdb, new, role, cleanup)
                           /\ last' = Returned(UserOp, 0, MsgCreate)
                    [] outcome = "hierarchy" ->
                           /\ userdb' = Cleanup([userdb EXCEPT !.users = users1],
                                                new, role, cleanup)
                           /\ last' = Returned(UserOp, 0, MsgCreate)
                    [] outcome = "parent" ->
                           /\ userdb' = Cleanup([userdb EXCEPT !.users = users1,
                                                               !.user_hierarchies = h1],
                                                new, role, cleanup)
                           /\ last' = Returned(UserOp, 0, MsgCreate)
                    [] outcome = "ok" ->
                           /\ userdb' = KeycloakWith([userdb EXCEPT !.users = users1,
                                                                    !.user_hierarchies = h2],
                                                     new, role)
                           /\ last' = Returned(UserOp, 0, new)
        /\ UNCHANGED <<documents, objs, embedder, vector_db, index, runs, dels, deleted,
                       search, pinecone, upsert, inits, listing, tasks>>

\* UserManagementService.ensure_user_in_db for a Keycloak user without record:
\* the record of a user built from the token alone has the role of the token,
\* no parent and no organization (auth_service.py:114-124)
ensure_user_in_db(u) ==
    /\ u \in userdb.keycloak
    /\ userdb.users[u] = NoUser
    /\ calls' = calls + 1
    /\ LET users1 == [userdb.users EXCEPT ![u] =
                         [role |-> userdb.token_role[u], parent_id |-> None,
                          organization_id |-> None]]
       IN  userdb' = [userdb EXCEPT
                          !.users = users1,
                          !.user_hierarchies =
                              update_user_hierarchy(users1, userdb.user_hierarchies, u)]
    /\ last' = Returned("ensure_user_in_db", 0, u)
    /\ UNCHANGED <<documents, objs, embedder, vector_db, index, runs, dels, deleted,
                   search, pinecone, upsert, inits, listing, tasks>>

\* the ids Keycloak has not handed out (an id of a user whose creation left
\* nothing behind is as good as new)
UnusedUsers ==
    {i \in DOMAIN PeopleInOrder : /\ PeopleInOrder[i] \notin userdb.keycloak
                                  /\ userdb.users[PeopleInOrder[i]] = NoUser}

\* the next id of the identity provider: ids are alike, the least unused one
NextUser ==
    PeopleInOrder[CHOOSE i \in UnusedUsers : \A j \in UnusedUsers : i <= j]

\* a deployment whose realm has one user, of any role, and whose user
\* database is empty
UserInit ==
    /\ documents = {}
    /\ objs = [d \in DocIds |-> NoDoc]
    /\ embedder = FALSE
    /\ vector_db = FALSE
    /\ index = {}
    /\ runs = [t \in RunIds |-> IdleRun]
    /\ dels = [k \in DelIds |-> IdleDel]
    /\ deleted = {}
    /\ calls = 0
    /\ last = NoCall
    /\ search = NoSearch
    /\ pinecone = NewPinecone(TRUE)
    /\ upsert = NoUpsert
    /\ inits = [c \in ClientIds |-> IdleInit]
    /\ listing = NoListing
    /\ \E r \in Roles : userdb = [NoUsers EXCEPT !.token_role["u1"] = r]
    /\ tasks = [k \in TaskIds |-> IdleTask]

UserNext ==
    /\ calls < MaxCalls
    /\ \/ /\ UnusedUsers # {}
          /\ \E creator_id \in userdb.keycloak, role \in Roles,
                parent_id \in userdb.keycloak \cup {None},
                outcome \in CreateOutcomes, cleanup \in BOOLEAN :
                 create_user(creator_id, NextUser, role, parent_id, outcome, cleanup)
       \/ \E u \in userdb.keycloak : ensure_user_in_db(u)

UserSpec == UserInit /\ [][UserNext]_vars

(* --------------------------- class management -------------------------- *)
AssignOp == "assign_student_to_class"
UnassignOp == "unassign_student_from_class"
DeleteClassOp == "delete_class"

\* $addToSet and $pull on the students array of a class
AddToSet(students, student_id) ==
    IF student_id \in Range(students) THEN students ELSE Append(students, student_id)
Pull(students, student_id) ==
    SelectSeq(students, LAMBDA x : x # student_id)

FreeTask ==
    CHOOSE k \in TaskIds : tasks[k].pc = "idle" /\ \A j \in TaskIds : tasks[j].pc = "idle" => k <= j

\* the checks assign_student_to_class and unassign_student_from_class make
\* before they change the class: "false", "raised" or "go"
StudentChecks(manager_id, student_id, class_id) ==
    IF \/ userdb.users[manager_id] = NoUser
       \/ userdb.users[student_id] = NoUser
       \/ userdb.class_assignments[class_id] = NoClass
      THEN "false"
    ELSE IF userdb.users[manager_id].role \notin {ADMIN, SUPERVISOR} THEN "raised"
    ELSE IF userdb.users[student_id].role # STUDENT THEN "raised"
    ELSE "go"

\* a class-management call up to its update of db.class_assignments: when
\* the update modified the class the call goes on to _update_user_hierarchy
\* of the class's teacher, else it returns False
ClassCall(op, checks, class_id, classes1) ==
    /\ \E k \in TaskIds : tasks[k].pc = "idle"
    /\ calls' = calls + 1
    /\ IF checks # "go"
         THEN /\ last' = Returned(op, class_id, checks)
              /\ UNCHANGED <<userdb, tasks>>
         ELSE IF classes1 = userdb.class_assignments
           THEN /\ last' = Returned(op, class_id, "false")
                /\ UNCHANGED <<userdb, tasks>>
           ELSE /\ userdb' = [userdb EXCEPT !.class_assignments = classes1]
                /\ tasks' = [tasks EXCEPT ![FreeTask] =
                        [pc |-> "updating", op |-> op, class_id |-> class_id,
                         teacher_id |-> userdb.class_assignments[class_id].teacher_id]]
                /\ last' = last
    /\ UNCHANGED <<documents, objs, embedder, vector_db, index, runs, dels, deleted,
                   search, pinecone, upsert, inits, listing>>

assign_student_to_class(manager_id, student_id, class_id) ==
    ClassCall(AssignOp, StudentChecks(manager_id, student_id, class_id), class_id,
              [userdb.class_assignments EXCEPT
                   ![class_id].students = AddToSet(@, student_id)])

unassign_student_from_class(manager_id, student_id, class_id) ==
    ClassCall(UnassignOp, StudentChecks(manager_id, student_id, class_id), class_id,
              [userdb.class_assignments EXCEPT
                   ![class_id].students = Pull(@, student_id)])

\* the checks of delete_class: a supervisor deletes only classes it created
DeleteChecks(manager_id, class_id) ==
    IF \/ userdb.users[manager_id] = NoUser
       \/ userdb.class_assignments[class_id] = NoClass
      THEN "false"
    ELSE IF userdb.users[manager_id].role \notin {ADMIN, SUPERVISOR} THEN "raised"
    ELSE IF /\ userdb.users[manager_id].role = SUPERVISOR
            /\ userdb.class_assignments[class_id].supervisor_id # manager_id
      THEN "raised"
    ELSE "go"

delete_class(manager_id, class_id) ==
    ClassCall(DeleteClassOp, DeleteChecks(manager_id, class_id), class_id,
              [userdb.class_assignments EXCEPT ![class_id] = NoClass])

\* _update_user_hierarchy of the teacher has read the users and the classes
\* and is about to write the record it computed from them
update_user_hierarchy_read(k) ==
    /\ tasks[k].pc = "updating"
    /\ LET t == tasks[k].teacher_id
       IN  IF userdb.users[t] = NoUser
             THEN /\ tasks' = [tasks EXCEPT ![k] = IdleTask]
                  /\ last' = Returned(tasks[k].op, tasks[k].class_id, "true")
             ELSE /\ tasks' = [tasks EXCEPT ![k] =
                          [pc |-> "writing", op |-> tasks[k].op,
                           class_id |-> tasks[k].class_id, teacher_id |-> t,
                           hierarchy_doc |->
                               HierarchyDoc(userdb.users, userdb.class_assignments, t)]]
                  /\ last' = last
    /\ UNCHANGED <<documents, objs, embedder, vector_db, index, runs, dels, deleted, calls,
                   search, pinecone, upsert, inits, listing, userdb>>

\* replace_one writes the record; the call returns True
update_user_hierarchy_write(k) ==
    /\ tasks[k].pc = "writing"
    /\ userdb' = [userdb EXCEPT
                      !.user_hierarchies[tasks[k].teacher_id] = tasks[k].hierarchy_doc]
    /\ tasks' = [tasks EXCEPT ![k] = IdleTask]
    /\ last' = Returned(tasks[k].op, tasks[k].class_id, "true")
    /\ UNCHANGED <<documents, objs, embedder, vector_db, index, runs, dels, deleted, calls,
                   search, pinecone, upsert, inits, listing>>

\* an organization of an admin u1, a teacher u2 and a student u3 under u1
SchoolUsers ==
    [u \in People |->
        CASE u = "u1" -> [role |-> ADMIN, parent_id |-> None, organization_id |-> None]
          [] u = "u2" -> [role |-> TEACHER, parent_id |-> "u1", organization_id |-> None]
          [] OTHER -> [role |-> STUDENT, parent_id |-> "u1", organization_id |-> None]]

\* the classes of the teacher, each with the student or without
SchoolClasses ==
    [ClassIds -> {NoClass} \cup
                 {[teacher_id |-> "u2", students |-> st, supervisor_id |-> None] :
                      st \in {<<>>, <<"u3">>}}]

\* the school with its hierarchy records built for its classes, no call in
\* flight
ClassInit ==
    /\ documents = {}
    /\ objs = [d \in DocIds |-> NoDoc]
    /\ embedder = FALSE
    /\ vector_db = FALSE
    /\ index = {}
    /\ runs = [t \in RunIds |-> IdleRun]
    /\ dels = [k \in DelIds |-> IdleDel]
    /\ deleted = {}
    /\ calls = 0
    /\ last = NoCall
    /\ search = NoSearch
    /\ pinecone = NewPinecone(TRUE)
    /\ upsert = NoUpsert
    /\ inits = [c \in ClientIds |-> IdleInit]
    /\ listing = NoListing
    /\ \E classes \in SchoolClasses :
           userdb = [keycloak |-> People,
                     class_assignments |-> classes,
                     token_role |-> [u \in People |-> SchoolUsers[u].role],
                     users |-> SchoolUsers,
                     user_hierarchies |->
                         [u \in People |-> HierarchyDoc(SchoolUsers, classes, u)]]
    /\ tasks = [k \in TaskIds |-> IdleTask]

ClassNext ==
    \/ /\ calls < MaxCalls
       /\ \E manager_id \in People, student_id \in People, class_id \in ClassIds :
              assign_student_to_class(manager_id, student_id, class_id)
    \/ /\ calls < MaxCalls
       /\ \E manager_id \in People, student_id \in People, class_id \in ClassIds :
              unassign_student_from_class(manager_id, student_id, class_id)
    \/ /\ calls < MaxCalls
       /\ \E manager_id \in People, class_id \in ClassIds : delete_class(manager_id, class_id)
    \/ \E k \in TaskIds : update_user_hierarchy_read(k)
    \/ \E k \in TaskIds : update_user_hierarchy_write(k)

ClassSpec == ClassInit /\ [][ClassNext]_vars

(* --------------------------- access policy ----------------------------- *)
\* user databases in which every user has a record and a hierarchy record
Worlds ==
    {[keycloak |-> People,
      class_assignments |-> [c \in ClassIds |-> NoClass],
      token_role |-> [u \in People |-> STUDENT],
      users |-> [u \in People |->
                   [role |-> STUDENT, parent_id |-> None,
                    organization_id |-> IF u \in Users THEN org[u] ELSE None]],
      user_hierarchies |-> [u \in People |->
                   [path |-> IF u \in Users THEN path[u] ELSE <<>>, children |-> {}]]] :
        path \in [Users -> {<<>>} \cup {<<v>> : v \in Users}], org \in [Users -> Orgs]}

InPath(path, u) == \E i \in DOMAIN path : path[i] = u

\* UserManagementService.can_access_document on the user database db
UserManagementService_can_access_document(user_id, document, db) ==
    IF document.user_id = user_id THEN TRUE
    ELSE CASE document.access_level = PRIVATE -> user_id \in document.accessible_to
           [] document.access_level = HIERARCHY ->
                  /\ document.user_id \in People
                  /\ db.user_hierarchies[document.user_id] # NoHierarchy
                  /\ user_id \in People
                  /\ db.user_hierarchies[user_id] # NoHierarchy
                  /\ InPath(db.user_hierarchies[user_id].path, document.user_id)
           [] document.access_level = PUBLIC ->
                  /\ user_id \in People
                  /\ db.users[user_id] # NoUser
                  /\ db.users[user_id].organization_id = document.organization_id

\* DocumentService.can_access_document
can_access_document(d, user_id, world) ==
    LET document == get_document(d, None)
    IN  IF document = NoDoc THEN FALSE
        ELSE IF document.user_id = user_id THEN TRUE
        ELSE UserManagementService_can_access_document(user_id, document, world)

(* ============================== claims ================================= *)
Active(t) == runs[t].pc \in {"extracting", "embedding", "storing"}

\* C1: every result of a search made with a non-null caller id has a stored
\* owner id that is absent or equal to the caller id
C1_NoCrossTenantLeak ==
    (search.called /\ search.user_id # None) =>
        \A i \in DOMAIN search.results :
            search.results[i].user_id \in {None, search.user_id}

\* C2: a stored document whose status is EMBEDDED has a non-empty embedding on
\* every chunk, whatever the embedder answered
C2_EmbeddedHasVectors ==
    \A d \in documents :
        objs[d].status = EMBEDDED =>
            \A i \in DOMAIN objs[d].chunks : objs[d].chunks[i].embedding = Vec

\* C3: the status becomes EMBEDDED only in the step in which the upsert of the
\* document's chunks reports success
C3_EmbeddedAfterUpsert ==
    [][\A d \in DocIds :
          (objs'[d].status = EMBEDDED /\ objs[d].status # EMBEDDED) =>
              \E t \in RunIds :
                  /\ runs[t].pc = "storing" /\ runs[t].doc = d
                  /\ runs'[t] = IdleRun
                  /\ last' = Returned(RunOp, d, "done")]_vars

\* C4: at most one pipeline run per document id is between its start and its end
C4_OneRunPerDocument ==
    \A t1, t2 \in RunIds :
        (t1 # t2 /\ Active(t1) /\ Active(t2)) => runs[t1].doc # runs[t2].doc

\* C5: once delete_document returned success for a document, the index holds
\* none of its chunk ids, so no search can return one
C5_DeletedNotInIndex ==
    \A e \in index : e.id[1] \notin deleted

\* C6: once a document's status is ERROR, no operation on that id changes it
C6_ErrorAbsorbing ==
    [][\A d \in DocIds : objs[d].status = ERROR => objs'[d].status = ERROR]_vars

\* C7: EMBEDDED is terminal, and ERROR is entered only from UPLOADED, PROCESSING
\* or PROCESSED
C7_EmbeddedTerminal ==
    [][\A d \in DocIds :
          /\ objs[d].status = EMBEDDED => objs'[d].status = EMBEDDED
          /\ (objs'[d].status = ERROR /\ objs[d].status # ERROR) =>
                 objs[d].status \in {UPLOADED, PROCESSING, PROCESSED}]_vars

\* C8: when a stage of a run raises while the document is in the store, the
\* status becomes ERROR, error_message is the message raised, and the run ends
\* with that failure, not with success
StageMessages == {MsgNotFound, MsgNoEmbedder, MsgNoChunks, MsgNoVectorDb, MsgNoEmbedded,
                  MsgStoreFalse, MsgUpsert, MsgExtract, MsgEmbed}
StageRaised(t) == Active(t) /\ ~Active(t)' /\ last' # Returned(RunOp, runs[t].doc, "done")
C8_StageFailureRecorded ==
    [][\A t \in RunIds :
          (StageRaised(t) /\ runs[t].doc \in documents') =>
              /\ last'.op = RunOp /\ last'.doc = runs[t].doc
              /\ last'.result \in StageMessages
              /\ objs'[runs[t].doc].status = ERROR
              /\ objs'[runs[t].doc].error_message = last'.result]_vars
C8_Witness ==
    \E d \in documents :
        /\ last = Returned(RunOp, d, MsgUpsert)
        /\ objs[d].status = ERROR
        /\ objs[d].error_message = MsgUpsert

\* what a run whose extraction returned no chunk looks like afterwards: it has
\* ended by raising msg without reaching the await on the embedder or the index
ZeroChunkRunEnds(t, d, msg) ==
    /\ runs'[t] = IdleRun
    /\ last' = Returned(RunOp, d, msg)
    /\ index' = index
    /\ objs'[d].status = ERROR
    /\ get_document_status(d, None)' # NoStatus
    /\ \A u \in Users \cup {None} :
          get_document_status(d, u)' # NoStatus =>
              /\ get_document_status(d, u)'.progress_percentage = 0
              /\ get_document_status(d, u)'.error_message = msg

\* C9 (as claimed): a run whose extraction yields zero chunks fails in the embed
\* stage with the no-chunks error; embedder and index are not called, the
\* status is ERROR and get_status reports progress 0 with that message
C9_ZeroChunks_Original ==
    [][\A t \in RunIds, d \in DocIds :
          (runs[t].doc = d /\ process_document_resume(t, TRUE, 0)) =>
              ZeroChunkRunEnds(t, d, MsgNoChunks)]_vars

\* C9 (amended): the same, with the no-chunks error when an embedder is
\* configured and the embedder-not-configured error when none is
C9_ZeroChunks ==
    [][\A t \in RunIds, d \in DocIds :
          (runs[t].doc = d /\ process_document_resume(t, TRUE, 0)) =>
              ZeroChunkRunEnds(t, d, IF embedder THEN MsgNoChunks ELSE MsgNoEmbedder)]_vars
C9_Witness ==
    \E d \in documents :
        /\ last = Returned(RunOp, d, MsgNoChunks)
        /\ objs[d].chunks = <<>>
        /\ objs[d].gen > 0
        /\ objs[d].status = ERROR
        /\ get_document_status(d, None).progress_percentage = 0
        /\ get_document_status(d, None).error_message = MsgNoChunks

\* C10: every create_document call returns the new document, gives it status
\* UPLOADED and an id no stored document has, sets the owner to None exactly
\* for PUBLIC and to the given user otherwise, and changes no other document
C10_CreateDocument ==
    [][\A id \in DocIds, u \in Users, a \in AccessLevel :
          create_document(id, u, a) =>
             /\ id \notin documents /\ id \in documents'
             /\ last' = Returned("create_document", id, "created")
             /\ objs'[id].status = UPLOADED
             /\ (objs'[id].user_id = None) <=> (a = PUBLIC)
             /\ a # PUBLIC => objs'[id].user_id = u
             /\ \A e \in DocIds \ {id} :
                   objs'[e] = objs[e] /\ (e \in documents' <=> e \in documents)]_vars
C10_Witness ==
    \E d1, d2 \in documents :
        /\ d1 # d2
        /\ objs[d1].status = EMBEDDED /\ objs[d1].user_id \in Users
        /\ last = Returned("create_document", d2, "created")
        /\ objs[d2].status = UPLOADED
        /\ objs[d2].access_level = PUBLIC /\ objs[d2].user_id = None

\* C11: get_document and get_document_status called with a caller id on a
\* stored document whose owner is another user return None, as for an id that
\* is not in the store
C11_DeniedIsAbsent ==
    \A d \in documents, c \in Users \cup {""} :
        (objs[d].user_id # None /\ objs[d].user_id # c) =>
            /\ get_document(d, c) = NoDoc
            /\ get_document_status(d, c) = NoStatus

\* C12: whatever the hierarchy and the organizations are, a user gets the
\* status of a stored document (and may delete it) exactly when the three-tier
\* policy grants the user access to it
C12_ThreeTierPolicy ==
    \A d \in documents, u \in Users, world \in Worlds :
        (get_document_status(d, u) # NoStatus) <=> can_access_document(d, u, world)

\* the search asked the index for candidates and got an answer
Queried == search.called /\ search.error = None

\* C13: a search asks the index for strictly more candidates than top_k
C13_OverFetch ==
    Queried => search.requested > search.top_k

\* C14: a search never returns more than top_k results, whatever the index
\* holds and whoever the caller is
C14_AtMostTopK ==
    search.called => Len(search.results) <= search.top_k
C14_Witness ==
    /\ Queried
    /\ Len(search.ranked) > search.top_k
    /\ Len(search.results) = search.top_k
    /\ Truthy(search.user_id)

\* the candidates the index gave to the search
Candidates == index_query(search.ranked, search.requested)

\* C15: every result of a search has a score of at least the threshold, and a
\* candidate visible to the caller whose score equals the threshold is a result
C15_ThresholdInclusive ==
    Queried =>
        /\ \A i \in DOMAIN search.results : search.results[i].score >= search.threshold
        /\ \A i \in DOMAIN Candidates :
              (Candidates[i].score = search.threshold /\ Visible(Candidates[i], search.user_id))
                  => \E j \in DOMAIN search.results : search.results[j] = Candidates[i]
C15_Witness ==
    /\ Queried
    /\ search.threshold > 0
    /\ \E j \in DOMAIN search.results : search.results[j].score = search.threshold
    /\ \E i \in DOMAIN Candidates : Candidates[i].score < search.threshold

\* the ids of the chunks of the latest upsert_vectors call that carry a vector
GivenEmbedded == {c.id : c \in {x \in Range(upsert.chunks) : x.embedding = Vec}}

\* C16: upsert_vectors writes exactly the chunks that carry an embedding; the
\* others are skipped without error, and when no chunk carries one no write is
\* sent, the index is unchanged and the call reports success
C16_UpsertSkipsUnembedded ==
    [][upsert' # upsert =>
          /\ upsert'.sent <=> (pinecone'.connected /\ GivenEmbedded' # {})
          /\ upsert'.written = IF upsert'.sent THEN GivenEmbedded' ELSE {}
          /\ last'.result = "true" => IndexIds' = IndexIds \cup GivenEmbedded'
          /\ last'.result # "true" => index' = index
          /\ (pinecone'.connected /\ GivenEmbedded' = {}) =>
                 (index' = index /\ last' = Returned(UpsertOp, 0, "true"))
          /\ \A e \in index' \ index : e.id \in GivenEmbedded']_vars
C16_Witness ==
    /\ last = Returned(UpsertOp, 0, "true")
    /\ upsert.sent
    /\ \E i \in DOMAIN upsert.chunks : upsert.chunks[i].embedding # Vec
    /\ upsert.written = GivenEmbedded
    /\ GivenEmbedded \subseteq IndexIds

\* C20: initialize sends no create request when the index exists, so calls made
\* one after the other create the index at most once, and no call changes the
\* vectors the index holds
C20_InitializeIdempotent ==
    [][\A outcome \in InitializeOutcomes :
          initialize(outcome) =>
              /\ pinecone.exists =>
                     (pinecone'.create_requests = pinecone.create_requests
                      /\ pinecone'.creates = pinecone.creates)
              /\ pinecone'.creates <= 1
              /\ pinecone.exists => pinecone'.exists
              /\ index' = index]_vars
C20_Witness ==
    /\ calls >= 2
    /\ last = Returned(InitializeOp, 0, "true")
    /\ pinecone.creates = 1 /\ pinecone.create_requests = 1
    /\ pinecone.connected

\* C17: once a 2-chunk PRIVATE document of u1 has completed the pipeline, a
\* search by u1 whose top_k and threshold admit both chunks returns both, and no
\* search by u2 returns either, however the index ranks them
C17_PrivateScenario ==
    \A d \in documents :
        (/\ JustIngested(d)
         /\ objs[d].access_level = PRIVATE /\ objs[d].user_id = "u1"
         /\ Len(objs[d].chunks) = 2) =>
            \A r \in RankingsOf(index) :
                /\ \A top_k \in 2..MaxMatches, threshold \in 0..r[2].score :
                       ResultIds(search_vectors(r, top_k, threshold, "u1"))
                           = ChunkIds(objs[d])
                /\ \A top_k \in 1..MaxMatches, threshold \in 0..MaxScore :
                       search_vectors(r, top_k, threshold, "u2") = <<>>
C17_Witness ==
    \E d \in documents :
        /\ JustIngested(d)
        /\ objs[d].access_level = PRIVATE /\ objs[d].user_id = "u1"
        /\ Len(objs[d].chunks) = 2
        /\ \A e \in index : e.user_id = "u1"

\* C18: a PUBLIC document has no owner, its chunks are stored without an owner
\* id, and once it has completed the pipeline a search by any caller whose
\* top_k and threshold admit its chunks returns them
C18_PublicScenario ==
    \A d \in DocIds :
        (objs[d] # NoDoc /\ objs[d].access_level = PUBLIC) =>
            /\ objs[d].user_id = None
            /\ \A e \in index : e.id[1] = d => e.user_id = None
            /\ JustIngested(d) =>
                   \A r \in RankingsOf(index), c \in Callers :
                       \A top_k \in Len(r)..MaxMatches, threshold \in 0..r[Len(r)].score :
                           ResultIds(search_vectors(r, top_k, threshold, c))
                               = ChunkIds(objs[d])
C18_Witness ==
    \E d \in documents :
        /\ JustIngested(d)
        /\ objs[d].access_level = PUBLIC /\ objs[d].user_id = None
        /\ Len(objs[d].chunks) = MaxChunks
        /\ \A e \in index : e.user_id = None

(* ------------------------- runs that never end ------------------------- *)
\* a process_and_embed_document coroutine of document d has not returned
RunAlive(d) == \E t \in RunIds : runs[t].pc # "idle" /\ runs[t].doc = d

\* The event loop resumes a coroutine whose awaited local work is done: the
\* document processor reads a local file, so its await always ends. The
\* embedder and the vector index are remote; embed_document (line 111) and
\* store_vectors (line 152) await them with no timeout, and create_collection
\* polls `while True`, so nothing in the code makes these awaits end.
FairSpec ==
    /\ Spec
    /\ WF_vars(\E t \in RunIds, n \in 0..MaxChunks : process_document_resume(t, TRUE, n))

\* C19: every started ingestion run eventually reaches a terminal status: a
\* document whose run is alive does not stay in PROCESSING or PROCESSED
\* forever, even when the embedder or the vector index never answers (the call
\* would be cut by a timeout and the document moved to ERROR).
C19_RunsTerminate ==
    \A d \in DocIds :
        (RunAlive(d) /\ objs[d].status \in {PROCESSING, PROCESSED})
            ~> (~RunAlive(d) \/ objs[d].status \in {EMBEDDED, ERROR})

\* C21: initialize is safe under concurrent calls: when calls interleave so
\* that several see the index absent before one creates it, every call
\* completes successfully, the index is created exactly once and the stored
\* vectors are kept.
C21_ConcurrentInitialize ==
    [][/\ \A c \in ClientIds : inits'[c].pc # "raised"
       /\ pinecone'.creates <= 1
       /\ index' = index]_vars

\* the documents a call of list_documents returned
Listed == {listing.result[i] : i \in DOMAIN listing.result}
ListedFor == listing.called /\ Truthy(listing.user_id)

C23_ListRecovers ==
    (ListedFor /\ vector_db /\ listing.outcome = "ok") =>
        /\ \A i \in DOMAIN listing.matches :
               LET m == listing.matches[i]
               IN  (m.user_id \in {listing.user_id, None}
                        /\ ~HasFilename(listing.memory, m.filename))
                     => \E doc \in Listed : /\ doc.filename = m.filename
                                            /\ doc.user_id = m.user_id
                                            /\ doc.status = EMBEDDED
        /\ \A i \in DOMAIN listing.memory :
               listing.memory[i].user_id \in {listing.user_id, None}
                   => listing.memory[i] \in Listed

\* C24: a failure of the embedder or of the vector index during search or
\* delete_document reaches the caller as an error: a search in which the
\* embedder or the index query raised returns no result list but an error,
\* and a delete_document whose index delete raised does not return success
\* (and the document stays in the store and in the index).
C24_FailuresPropagate ==
    [][/\ search'.raised # "none" => search'.error = MsgSearch /\ search'.results = <<>>
       /\ \A k \in DelIds, d \in DocIds :
              (dels[k].doc = d /\ delete_document_resume(k, FALSE))
                  => /\ last' = Returned(DeleteOp, d, "raised")
                     /\ documents' = documents
                     /\ deleted' = deleted
                     /\ index' = index]_vars

C24_Witness ==
    /\ search.called
    /\ search.raised = "index"
    /\ search.ranked # <<>>
    /\ search.error = MsgSearch
    /\ last = Returned(DeleteOp, 1, "raised")
    /\ 1 \in documents
    /\ index # {}

\* C25: a caller id is required for search: a search made with a null or
\* empty caller id is refused (it ends with an error) and returns no chunk
\* whose stored owner id is set.
C25_CallerIdRequired ==
    (search.called /\ ~Truthy(search.user_id)) =>
        /\ search.error # None
        /\ \A i \in DOMAIN search.results : search.results[i].user_id = None

\* C26: get_status reports progress as a fixed function of the status alone
\* (UPLOADED 0, PROCESSING 25, PROCESSED 50, EMBEDDED 100, ERROR 0), whatever
\* the chunk counts, and the status and the error message it reports are those
\* the document has at the time of the call.
C26_ProgressByStatus ==
    \A d \in documents, u \in Callers :
        LET st == get_document_status(d, u)
        IN  st # NoStatus =>
              /\ st.status = objs[d].status
              /\ st.error_message = objs[d].error_message
              /\ <<st.status, st.progress_percentage>> \in
                     {<<UPLOADED, 0>>, <<PROCESSING, 25>>, <<PROCESSED, 50>>,
                      <<EMBEDDED, 100>>, <<ERROR, 0>>}

C26_Witness ==
    \E d \in documents :
        LET st == get_document_status(d, objs[d].user_id)
        IN  /\ st.status = ERROR
            /\ st.progress_percentage = 0
            /\ st.error_message = MsgUpsert
            /\ st.chunks_count = MaxChunks
            /\ st.embedded_count = MaxChunks

\* C27: a document's owner id never changes after creation: whatever the
\* pipeline, the status queries and the deletions do, every Document keeps the
\* user_id create_document gave it (None for PUBLIC, the creator otherwise).
C27_OwnerImmutable ==
    [][\A d \in DocIds :
          /\ objs[d] # NoDoc => objs'[d] # NoDoc /\ objs'[d].user_id = objs[d].user_id
          /\ (objs[d] = NoDoc /\ objs'[d] # NoDoc) =>
                 /\ last' = Returned("create_document", d, "created")
                 /\ (objs'[d].user_id = None) <=> (objs'[d].access_level = PUBLIC)]_vars

C27_Witness ==
    \E d \in documents :
        /\ objs[d].user_id = "u1"
        /\ objs[d].access_level = HIERARCHY
        /\ objs[d].gen = 1
        /\ Len(objs[d].chunks) = MaxChunks
        /\ last = Returned(RunOp, d, "done")
        /\ ChunkIds(objs[d]) \subseteq IndexIds

\* the step in which the embedder answers run t on the stored document d and
\* leaves no chunk of d with an embedding, so that store_vectors is called on it
StoreWithoutEmbeddings(t, d) ==
    /\ runs[t].doc = d
    /\ d \in documents
    /\ \E e \in EmbedderAnswers : embed_document_resume(t, TRUE, e)
    /\ EmbeddedChunks(objs'[d]) = {}

\* store_vectors raised msg: the run ended with it before any upsert, the index
\* is unchanged and the document is in ERROR with the message
StoreRefused(t, d, msg) ==
    /\ last' = Returned(RunOp, d, msg)
    /\ runs'[t] = IdleRun
    /\ index' = index
    /\ objs'[d].status = ERROR
    /\ objs'[d].error_message = msg

\* C28: store_vectors on a document none of whose chunks carries an embedding
\* fails with the no-embedded-chunks error: no upsert is sent to the vector
\* index, the index is unchanged, and the document's status becomes ERROR.
C28_NoEmbeddedChunks_Original ==
    [][\A t \in RunIds, d \in DocIds :
          StoreWithoutEmbeddings(t, d) => StoreRefused(t, d, MsgNoEmbedded)]_vars

\* C28 (amended): the same, with the no-embedded-chunks error when a vector
\* index is configured and the vector-database-not-configured error when none
\* is
C28_NoEmbeddedChunks ==
    [][\A t \in RunIds, d \in DocIds :
          StoreWithoutEmbeddings(t, d) =>
              StoreRefused(t, d, IF vector_db THEN MsgNoEmbedded ELSE MsgNoVectorDb)]_vars

C28_Witness ==
    \E d \in documents :
        /\ last = Returned(RunOp, d, MsgNoEmbedded)
        /\ vector_db
        /\ Len(objs[d].chunks) = MaxChunks
        /\ EmbeddedChunks(objs[d]) = {}
        /\ objs[d].status = ERROR
        /\ objs[d].error_message = MsgNoEmbedded
        /\ index = {}

\* the documents can_access_document is asked about
DocumentDicts ==
    [user_id : People \cup {None}, access_level : AccessLevel,
     accessible_to : {{}} \cup {{u} : u \in People}, organization_id : {None, "org1"}]

\* user_id is a descendant of owner in the organizational hierarchy: both have
\* a user record and the parent links lead from user_id up to owner
RECURSIVE LinkedUp(_, _, _)
LinkedUp(p, owner, fuel) ==
    IF p = None \/ fuel = 0 THEN FALSE
    ELSE IF p = owner THEN TRUE
    ELSE IF userdb.users[p] = NoUser THEN FALSE
    ELSE LinkedUp(userdb.users[p].parent_id, owner, fuel - 1)
IsDescendant(user_id, owner) ==
    /\ owner # None
    /\ userdb.users[owner] # NoUser
    /\ userdb.users[user_id] # NoUser
    /\ LinkedUp(userdb.users[user_id].parent_id, owner, Cardinality(People))

\* C29: UserManagementService.can_access_document(u, d) returns true exactly
\* when u is d's owner, or d is PRIVATE and u is in d's allow-list, or d is
\* HIERARCHY and u is a descendant of d's owner in the organizational
\* hierarchy, or d is PUBLIC and u's organization id equals d's; and returns
\* false in every other case.
C29_AccessPolicy ==
    \A u \in People, document \in DocumentDicts :
        UserManagementService_can_access_document(u, document, userdb) <=>
            \/ document.user_id = u
            \/ document.access_level = PRIVATE /\ u \in document.accessible_to
            \/ document.access_level = HIERARCHY /\ IsDescendant(u, document.user_id)
            \/ /\ document.access_level = PUBLIC
               /\ userdb.users[u] # NoUser
               /\ userdb.users[u].organization_id = document.organization_id

\* C30: the pipeline runs its stages strictly in the order extract-and-chunk,
\* embed, store, and stops at the first failing stage: a run calls the embedder
\* only in the step in which its extraction succeeded and the index upsert
\* only in the step in which its embedding succeeded; a run whose stage failed
\* ends there, and vectors enter the index only from a run that is storing.
C30_StagesInOrder ==
    [][/\ \A t \in RunIds, d \in DocIds :
            /\ (runs[t].pc # "extracting" /\ runs'[t].pc = "extracting")
                   => runs[t].pc = "idle"
            /\ (runs[t].pc # "embedding" /\ runs'[t].pc = "embedding")
                   => /\ runs[t].pc = "extracting"
                      /\ \E n \in 1..MaxChunks : process_document_resume(t, TRUE, n)
            /\ (runs[t].pc # "storing" /\ runs'[t].pc = "storing")
                   => /\ runs[t].pc = "embedding"
                      /\ \E e \in EmbedderAnswers : embed_document_resume(t, TRUE, e)
            /\ (runs[t].doc = d /\ process_document_resume(t, FALSE, 0))
                   => runs'[t] = IdleRun /\ last' = Returned(RunOp, d, MsgExtract)
            /\ (runs[t].doc = d /\ embed_document_resume(t, FALSE, <<>>))
                   => runs'[t] = IdleRun /\ last' = Returned(RunOp, d, MsgEmbed)
       /\ IndexIds' \ IndexIds # {} =>
              \E t \in RunIds : runs[t].pc = "storing" /\ store_vectors_resume(t, "ok")]_vars

C30_Witness ==
    \E d \in documents :
        /\ embedder
        /\ vector_db
        /\ last = Returned(RunOp, d, MsgEmbed)
        /\ objs[d].status = ERROR
        /\ Len(objs[d].chunks) = MaxChunks
        /\ EmbeddedChunks(objs[d]) = {}
        /\ index = {}
        /\ \A t \in RunIds : runs[t] = IdleRun

\* C31: in every reachable state a document's error_message is set only if
\* its status is ERROR: a document in UPLOADED, PROCESSING, PROCESSED or
\* EMBEDDED has no error message.
C31_MessageOnlyInError ==
    \A d \in DocIds :
        (objs[d] # NoDoc /\ objs[d].error_message # None) => objs[d].status = ERROR

\* C32: in every reachable state a chunk carries an embedding only if its
\* document's status is EMBEDDED: no chunk of a document in UPLOADED,
\* PROCESSING or PROCESSED has an embedding, under every sequence and
\* interleaving of pipeline stages on the document.
C32_EmbeddingOnlyWhenEmbedded ==
    \A d \in DocIds :
        (objs[d] # NoDoc /\ objs[d].status \in {UPLOADED, PROCESSING, PROCESSED})
            => EmbeddedChunks(objs[d]) = {}

\* C33: once delete_document(d) has returned true, d is never again a key of
\* the in-memory document store, whatever a pipeline run of d that was
\* suspended in extraction, embedding or storage does when it resumes.
C33_DeletedStaysDeleted ==
    \A d \in deleted : d \notin documents

\* C34: when the vector index delete raises during delete_document, the call
\* ends with an error and leaves the in-memory store as it was: the set of
\* keys and every document object (status, chunks) are unchanged, nothing is
\* recorded as deleted, and a deletion slot is free, so the same delete can
\* be issued again and finds the same document.
C34_FailedDeleteKeepsStore ==
    [][\A k \in DelIds, d \in DocIds :
           (/\ dels[k].pc = "deleting"
            /\ dels[k].doc = d
            /\ dels'[k] = IdleDel
            /\ last' = Returned(DeleteOp, d, "raised"))
               => /\ documents' = documents
                  /\ objs' = objs
                  /\ deleted' = deleted
                  /\ \A u \in Users \cup {None} :
                         get_document(d, u)' = get_document(d, u)]_vars

C34_Witness ==
    /\ last = Returned(DeleteOp, 1, "raised")
    /\ 1 \in documents
    /\ objs[1].status = EMBEDDED
    /\ Len(objs[1].chunks) = MaxChunks
    /\ EmbeddedChunks(objs[1]) # {}
    /\ \A k \in DelIds : dels[k] = IdleDel

\* C35: delete_document(d, c) with a non-empty caller id c removes d, or
\* sends a delete of d's vectors to the index, only if d is in the store and
\* its owner is c or null; when d's owner is another user or d is not in the
\* store the call returns false, sends nothing to the index and leaves the
\* store, the documents and the index as they were.
C35_DeleteOnlyOwn ==
    [][\A d \in DocIds, c \in Users :
           delete_document(d, c) =>
               LET refused == d \notin documents \/ objs[d].user_id \notin {c, None}
               IN  /\ refused => /\ last' = Returned(DeleteOp, d, "false")
                                 /\ dels' = dels
                                 /\ documents' = documents
                                 /\ objs' = objs
                                 /\ index' = index
                                 /\ deleted' = deleted
                   /\ (documents' # documents \/ dels' # dels) => ~refused]_vars

\* another user's delete of an ingested document was refused: the document
\* and its vectors are still there
C35_Witness ==
    /\ last = Returned(DeleteOp, 1, "false")
    /\ 1 \in documents
    /\ objs[1].user_id = "u1"
    /\ objs[1].chunks # <<>>
    /\ ChunkIds(objs[1]) \subseteq {v.id : v \in index}
    /\ \A k \in DelIds : dels[k] = IdleDel

\* the documents in memory that list_documents(c) takes before it asks the index
VisibleInMemory ==
    {listing.memory[i] : i \in {j \in DOMAIN listing.memory :
                                    listing.memory[j].user_id \in {listing.user_id, None}}}

\* C36: for every store and index content, two users with documents of the
\* same filename included, list_documents(c) with a non-empty caller id c
\* returns no document whose owner is set and differs from c, and it omits no
\* index document owned by c on account of another user's document of the
\* same filename: when the index answers, a filename under which the index
\* holds a chunk of c, no organization-wide chunk, and which no document taken
\* from memory has, is listed as a document of c.
C36_ListPerOwner ==
    ListedFor =>
        /\ \A doc \in Listed : doc.user_id \in {listing.user_id, None}
        /\ (vector_db /\ listing.outcome = "ok") =>
               \A i \in DOMAIN listing.matches :
                   LET m == listing.matches[i]
                   IN  (/\ m.user_id = listing.user_id
                        /\ \A doc \in VisibleInMemory : doc.filename # m.filename
                        /\ \A j \in DOMAIN listing.matches :
                               listing.matches[j].filename = m.filename
                                   => listing.matches[j].user_id # None)
                         => \E doc \in Listed : /\ doc.filename = m.filename
                                                /\ doc.user_id = listing.user_id

\* the role a caller acts with: the role of its record, or the role of its
\* token when it has no record (auth_service.py:89-124)
CreatorRole(c) ==
    IF userdb.users[c] # NoUser THEN userdb.users[c].role ELSE userdb.token_role[c]

\* C37: create_user succeeds only when the creator's role is strictly above
\* the requested role: whoever the creator is, with or without a record in
\* the user database, a call that creates a user was made by a creator whose
\* role is above the new user's, and no call creates a user with role ADMIN.
C37_CreateBelowOnly ==
    [][\A c \in People, role \in Roles, parent_id \in People \cup {None} :
           (/\ UnusedUsers # {}
            /\ create_user(c, NextUser, role, parent_id, "ok", TRUE)
            /\ last' = Returned(UserOp, 0, NextUser))
               => /\ can_create_role(CreatorRole(c), role)
                  /\ role # ADMIN]_vars

\* the second half of C37 alone: no user record ever made by create_user has
\* role ADMIN (a record with role ADMIN is the record of a token's admin)
C37_NoAdminCreated ==
    [][\A u \in People :
           (userdb.users[u] = NoUser /\ userdb'.users[u] # NoUser
                /\ userdb'.users[u].role = ADMIN)
               => last' = Returned("ensure_user_in_db", 0, u)]_vars

\* what a call of create_user for the id u left behind
LeftBehind(u) ==
    \/ u \in userdb.keycloak
    \/ userdb.users[u] # NoUser
    \/ userdb.user_hierarchies[u] # NoHierarchy

\* C38: create_user is all-or-nothing across Keycloak and the user database:
\* when a call fails at any step (role assignment, database insert, hierarchy
\* update), afterwards there is neither a Keycloak user nor a user record nor
\* a hierarchy record of the user it was creating.
C38_AllOrNothing ==
    [][(UnusedUsers # {} /\ calls' = calls + 1 /\ last' = Returned(UserOp, 0, MsgCreate))
           => \A u \in People : ~LeftBehind(u) => ~LeftBehind(u)']_vars

\* C39: after create_user has completed successfully the hierarchy records
\* agree with the parent links: the new user has a hierarchy record, and every
\* ancestor of the new user (every user with a record that the parent links
\* lead up to, the direct parent or higher) is in the new user's path and has
\* the new user among its children.
C39_HierarchyConsistent ==
    \A u \in People :
        last = Returned(UserOp, 0, u) =>
            /\ userdb.user_hierarchies[u] # NoHierarchy
            /\ \A a \in People :
                   IsDescendant(u, a) =>
                       /\ InPath(userdb.user_hierarchies[u].path, a)
                       /\ userdb.user_hierarchies[a] # NoHierarchy
                       /\ u \in userdb.user_hierarchies[a].children

\* C40: when every assign_student_to_class, unassign_student_from_class and
\* delete_class call made so far has completed, under any interleaving of the
\* calls, each teacher's stored children are the teacher's parent-link
\* descendants together with exactly the students now listed in the teacher's
\* classes; and a class's student list never holds a student twice.
C40_TeacherChildren ==
    /\ (\A k \in TaskIds : tasks[k] = IdleTask) =>
           \A t \in People :
               (userdb.users[t] # NoUser /\ userdb.users[t].role = TEACHER) =>
                   userdb.user_hierarchies[t].children =
                       DescendantsOf(userdb.users, {t}, Cardinality(People))
                           \cup StudentsOf(userdb.class_assignments, t)
    /\ \A c \in ClassIds :
           userdb.class_assignments[c] # NoClass =>
               \A i, j \in DOMAIN userdb.class_assignments[c].students :
                   userdb.class_assignments[c].students[i]
                       = userdb.class_assignments[c].students[j] => i = j
====
